---- MODULE Spec2Model ----
(***************************************************************************)
(* A state-machine model of src/script.js: the market dashboard's fetcher  *)
(* (fetchStockData), the fixed index slots (initCharts, updateIndexData,   *)
(* updateDashboard, handleChartUpdate), the search slot (handleSearch) and *)
(* the chart/price rendering (updateChartUI, updatePriceDisplay).          *)
(*                                                                         *)
(* JavaScript runs one handler at a time and an async function runs        *)
(* synchronously up to its next await, so every action below is one such   *)
(* run: an event handler up to the first await of the calls it makes, or   *)
(* the continuation of a suspended call from the settling of its await to  *)
(* the next one.                                                           *)
(*                                                                         *)
(* Text (symbols, names, field contents) is a sequence of one-character    *)
(* strings; tokens the code only compares (ranges, intervals, chart types, *)
(* element ids) are strings.                                               *)
(***************************************************************************)
EXTENDS Integers, Sequences, FiniteSets, Bags, TLC

\* ------------------------------------------------------------------ bounds
\* How many of the index definitions of src/script.js:74-79 the model keeps.
NumIndices == 2
\* Events handled in one session: clicks, Enter, and firings of the 60 s timer.
MaxEvents == 2
\* Largest retries argument given to fetchStockData in FetchSpec.
MaxRetries == 2
\* Longest timestamp array of the responses NormalizeSpec and RenderSpec draw.
MaxPoints == 2

\* ------------------------------------------------------------- JS values
\* null and undefined of a string-valued argument or property.
Null == "null"
Undefined == "undefined"
\* null and undefined where a number is expected (prices are positive).
NullNum == -1
UndefNum == -2
\* A missing object: no cached data (index.lastData undefined,
\* lastFetchedData null, fetchStockData's null) and no chart instance.
NoData == [null |-> TRUE]
NoChart == [nochart |-> TRUE]

Truthy(s) == s # Null /\ s # Undefined /\ s # ""

\* a || b on text: the empty string is falsy.
OrText(a, b) == IF a # <<>> THEN a ELSE b

\* Number(x) as the arithmetic operators coerce it: null is 0.
IsNaN(x) == x = UndefNum
Num(x) == IF x = NullNum THEN 0 ELSE x

\* a >= b in JS: false when either side is NaN.
GE(a, b) == IF IsNaN(a) \/ IsNaN(b) THEN FALSE ELSE Num(a) >= Num(b)

\* arr[i] (1-based here): undefined past the end of the array.
At(arr, i) == IF i \in 1..Len(arr) THEN arr[i] ELSE UndefNum

\* ------------------------------------------------------------------ text
ToUpperChar(c) ==
  CASE c = "a" -> "A"
    [] c = "b" -> "B"
    [] c = "k" -> "K"
    [] OTHER -> c

ToUpperCase(s) == [j \in 1..Len(s) |-> ToUpperChar(s[j])]

RECURSIVE TrimStart(_)
TrimStart(s) == IF s # <<>> /\ Head(s) = " " THEN TrimStart(Tail(s)) ELSE s

RECURSIVE TrimEnd(_)
TrimEnd(s) ==
  IF s # <<>> /\ s[Len(s)] = " " THEN TrimEnd(SubSeq(s, 1, Len(s) - 1)) ELSE s

Trim(s) == TrimEnd(TrimStart(s))

Includes(s, c) == \E j \in 1..Len(s) : s[j] = c

\* ----------------------------------------------------- static configuration
\* const indices = [...]: the fixed slots, before any lastData is attached.
AllIndices ==
  << [id |-> "kospi", symbol |-> <<"^", "K", "S", "1", "1">>,
      name |-> <<"K", "O", "S", "P", "I">>,
      range |-> "5y", interval |-> "1mo", type |-> "candlestick",
      lastData |-> NoData],
     [id |-> "kosdaq", symbol |-> <<"^", "K", "Q", "1", "1">>,
      name |-> <<"K", "O", "S", "D", "A", "Q">>,
      range |-> "5y", interval |-> "1mo", type |-> "candlestick",
      lastData |-> NoData],
     [id |-> "nasdaq", symbol |-> <<"^", "I", "X", "I", "C">>,
      name |-> <<"N", "A", "S", "D", "A", "Q">>,
      range |-> "5y", interval |-> "1mo", type |-> "candlestick",
      lastData |-> NoData],
     [id |-> "sp500", symbol |-> <<"^", "G", "S", "P", "C">>,
      name |-> <<"S", "&", "P", " ", "5", "0", "0">>,
      range |-> "5y", interval |-> "1mo", type |-> "candlestick",
      lastData |-> NoData] >>

IndexDefs == SubSeq(AllIndices, 1, NumIndices)

IndexIds == {IndexDefs[k].id : k \in 1..Len(IndexDefs)}

\* Keys of the charts object: one per index id, and 'searchResult'.
ChartKeys == IndexIds \cup {"searchResult"}

\* data-range / data-interval of the range buttons the page offers.
Presets == {[range |-> "5y", interval |-> "1mo"], [range |-> "1d", interval |-> "5m"]}

\* data-type of the type buttons.
ChartTypes == {"line", "candlestick"}

\* Slot ids handleChartUpdate can be handed besides the index ids and the
\* reserved 'search': an id no index has, and the undefined of a wrapper
\* without data-index-id outside the search section.
UnknownIds == {"dow", Undefined}

\* What the user can have typed into #stock-code and chosen in #exchange-select.
StockCodes == {<<>>, <<"a">>, <<" ", "B", ".", "K">>}
Exchanges == {<<>>, <<".", "K">>}

\* Default arguments: handleSearch(range = '5y', interval = '1mo'),
\* fetchStockData(..., retries = 1).
DefaultRange == "5y"
DefaultInterval == "1mo"
DefaultRetries == 1

\* ------------------------------------------------------------- the upstream
\* What one attempt can meet: a transport or HTTP-status failure ("net"), a
\* 200 response whose JSON lacks chart.result[0] or quote[0] ("shape"), or a
\* well-formed body.  Bodies: "full" has points, one of them with a null close;
\* "empty" has no timestamp array; "noprice" is "full" without
\* meta.regularMarketPrice.
Failures == {"net", "shape"}
BodyKinds == {"full", "empty", "noprice"}

\* The timestamps the upstream sends for a range (5y spans more than a year).
Stamps(range) ==
  IF range = "5y" THEN <<0, 20000000, 40000000>> ELSE <<0, 300, 600>>

\* chart.result[0] of the body answering (symbol, range, interval).  req is
\* not a field of the JSON: it records which request the body answers.
Upstream(kind, symbol, range, interval) ==
  [timestamp |-> IF kind = "empty" THEN <<>> ELSE Stamps(range),
   open |-> IF kind = "empty" THEN <<>> ELSE <<10, 11, 12>>,
   high |-> IF kind = "empty" THEN <<>> ELSE <<12, 12, 14>>,
   low |-> IF kind = "empty" THEN <<>> ELSE <<9, 10, 11>>,
   close |-> IF kind = "empty" THEN <<>> ELSE <<11, NullNum, 13>>,
   regularMarketPrice |-> IF kind = "noprice" THEN UndefNum ELSE 13,
   chartPreviousClose |-> 11,
   shortName |-> <<>>,
   longName |-> <<>>,
   req |-> [symbol |-> symbol, range |-> range, interval |-> interval]]

\* ------------------------------------------------------------ fetchStockData
\* timestamps.map((t, i) => ({time, o, h, l, c}))
PairUp(result) ==
  [j \in 1..Len(result.timestamp) |->
     [time |-> result.timestamp[j],
      o |-> At(result.open, j),
      h |-> At(result.high, j),
      l |-> At(result.low, j),
      c |-> At(result.close, j)]]

\* item => item.c !== null && item.o !== null
ValidItem(item) == item.c # NullNum /\ item.o # NullNum

FilterValid(items) == SelectSeq(items, ValidItem)

\* The object a successful attempt returns.
Normalize(result, symbol) ==
  LET validData == FilterValid(PairUp(result))
  IN [ohlc |-> validData,
      prices |-> [j \in 1..Len(validData) |-> validData[j].c],
      timestamps |-> [j \in 1..Len(validData) |-> validData[j].time],
      currentPrice |-> result.regularMarketPrice,
      prevClose |-> result.chartPreviousClose,
      lastUpdated |-> IF Len(validData) > 0 THEN validData[Len(validData)].time
                      ELSE NullNum,
      name |-> OrText(result.shortName, OrText(result.longName, symbol)),
      req |-> result.req]

\* catch (error): every throw inside the try block lands here, whatever threw.
Caught(cause) == cause \in Failures

\* (mutants of GivesUp: an off-by-one in the test, and a catch block that
\* retries transport failures only)
GivesUpEarly(cause, i, retries) == i + 1 >= retries

GivesUpUnlessNetwork(cause, i, retries) == cause # "net" \/ i = retries

\* if (i === retries) { ...; return null; }: the catch block gives up on the
\* last iteration of the loop, whatever the error.
GivesUp(cause, i, retries) == i = retries

\* ---------------------------------------------------------------- the state
VARIABLES
  indices,              \* the indices array: each entry with its lastData
  charts,               \* the charts object: key -> Chart instance
  currentSearchSymbol,  \* let currentSearchSymbol
  currentChartType,     \* let currentChartType
  lastFetchedData,      \* let lastFetchedData
  dom,                  \* the elements the code reads and writes
  absent,               \* elements the page lacks
  tasks,                \* suspended async calls, each awaiting its fetch
  unhandled,            \* async calls whose promise rejected
  last,                 \* the run that produced this state (history)
  nEvents,              \* clicks, Enters and timer firings handled so far
  session,              \* which part of the page this session exercises
  hist                  \* a call made twice: its arguments, the responses it
                        \* got, and the state it left the first time (history)

vars ==
  <<indices, charts, currentSearchSymbol, currentChartType, lastFetchedData,
    dom, absent, tasks, unhandled, last, nEvents, session, hist>>

\* (mutant of UpdatedState: a type argument flips the type it names)
UpdatedStateToggles(target, range, interval, type) ==
  [target EXCEPT
     !.range = IF Truthy(range) THEN range ELSE @,
     !.interval = IF Truthy(range) THEN interval ELSE @,
     !.type = IF ~Truthy(type) THEN @
              ELSE IF @ # type THEN type
              ELSE IF type = "line" THEN "candlestick" ELSE "line"]

\* (mutant of FindIndex: falls back to the first index)
FindIndexOrFirst(chartId) ==
  IF \E k \in 1..Len(indices) : indices[k].id = chartId
  THEN CHOOSE k \in 1..Len(indices) : indices[k].id = chartId
  ELSE 1

\* (mutant of FindIndex: the entry after the one that matches)
FindIndexNext(chartId) ==
  IF \E k \in 1..Len(indices) : indices[k].id = chartId
  THEN ((CHOOSE k \in 1..Len(indices) : indices[k].id = chartId) % Len(indices)) + 1
  ELSE 0

\* indices.find(i => i.id === chartId), as a position (0: not found).
FindIndex(chartId) ==
  IF \E k \in 1..Len(indices) : indices[k].id = chartId
  THEN CHOOSE k \in 1..Len(indices) : indices[k].id = chartId
  ELSE 0

\* document.querySelector(`.chart-controls-wrapper[data-index-id="${id}"]`)
HasWrapper(id) == <<"wrapper", id>> \notin absent

\* Both `#${id}-price .current-price` and `.change-percent` (for 'search':
\* of #search-price-info) are found.
HasPriceEls(prefix) == <<"price", prefix>> \notin absent

\* The key of charts under which the chart of a slot (or of an element-id
\* prefix) is kept.
ChartKeyOf(id) == IF id = "search" THEN "searchResult" ELSE id

\* ---------------------------------------------------------------- rendering
\* (mutant of FormatLabel: thresholds that include their bound)
FormatLabelInclusive(t, timestamps) ==
  LET timeSpan == timestamps[Len(timestamps)] - timestamps[1]
  IN IF Len(timestamps) > 1 /\ timeSpan >= 31536000
       THEN [fmt |-> "YYYY/MM", time |-> t]
     ELSE IF Len(timestamps) > 1 /\ timeSpan >= 86400 * 2
       THEN [fmt |-> "MM/DD", time |-> t]
     ELSE [fmt |-> "HH:mm", time |-> t]

\* One x-axis label: the format chosen from the span of the series, and the
\* instant it renders.
FormatLabel(t, timestamps) ==
  LET timeSpan == timestamps[Len(timestamps)] - timestamps[1]
  IN IF Len(timestamps) > 1 /\ timeSpan > 31536000
       THEN [fmt |-> "YYYY/MM", time |-> t]
     ELSE IF Len(timestamps) > 1 /\ timeSpan > 86400 * 2
       THEN [fmt |-> "MM/DD", time |-> t]
     ELSE [fmt |-> "HH:mm", time |-> t]

Labels(timestamps) ==
  [j \in 1..Len(timestamps) |-> FormatLabel(timestamps[j], timestamps)]

\* A count of milliseconds, which exceeds 32-bit integers: the
\* number thousands * 1000 + units, with units in 0..999.
Millis(thousands, units) == [thousands |-> thousands, units |-> units]

\* seconds * 1000
TimesThousand(seconds) == Millis(seconds, 0)

\* data.ohlc.map(item => ({x: item.time * 1000, o, h, l, c}))
OhlcData(ohlc) ==
  [j \in 1..Len(ohlc) |->
     [x |-> TimesThousand(ohlc[j].time), o |-> ohlc[j].o, h |-> ohlc[j].h,
      l |-> ohlc[j].l, c |-> ohlc[j].c]]

\* new Chart(ctx, config) of initCharts and of handleSearch: a deep copy of
\* chartConfig, whose x ticks have no source.  instance is not a field of the
\* Chart: it counts the Chart objects constructed for the key so far.
InitialIndexChart(index) ==
  [type |-> "line", xType |-> Undefined, xTicksSource |-> Undefined,
   labels |-> <<>>,
   datasets |-> <<[label |-> index.name, data |-> <<>>, borderColor |-> "#2ebd85"]>>,
   shows |-> NoData, instance |-> 1]

InitialSearchChart ==
  [type |-> "line", xType |-> Undefined, xTicksSource |-> Undefined,
   labels |-> <<>>, datasets |-> <<>>,
   shows |-> NoData, instance |-> 1]

\* (mutant of SearchChartFor: a new Chart on every render)
SearchChartAlwaysNew(chart) ==
  IF chart = NoChart THEN InitialSearchChart
  ELSE [InitialSearchChart EXCEPT !.instance = chart.instance + 1]

\* if (!charts['searchResult']) { ... charts['searchResult'] = new Chart(ctx, config); }
SearchChartFor(chart) == IF chart = NoChart THEN InitialSearchChart ELSE chart

\* (mutant of ChartAfter: the line branch without its two deletes, so that
\* the x scale keeps the type the candlestick branch gave it)
ChartAfterKeepsScale(chart, data, elementIdPrefix, currentType) ==
  LET isPositive == GE(data.currentPrice, data.prevClose)
      label == IF elementIdPrefix = "search" THEN data.name ELSE <<>>
  IN IF currentType = "candlestick"
     THEN [type |-> currentType, xType |-> "time", xTicksSource |-> "auto",
           labels |-> <<>>,
           datasets |-> <<[label |-> label, data |-> OhlcData(data.ohlc),
                           borderColor |-> "#555"]>>,
           shows |-> data, instance |-> chart.instance]
     ELSE [type |-> currentType, xType |-> chart.xType,
           xTicksSource |-> chart.xTicksSource,
           labels |-> Labels(data.timestamps),
           datasets |-> <<[label |-> label, data |-> data.prices,
                           borderColor |-> IF isPositive THEN "#2ebd85"
                                           ELSE "#f6465d"]>>,
           shows |-> data, instance |-> chart.instance]

\* The chart after updateChartUI's chart.update('none').  The candlestick
\* branch replaces the x ticks by an object with source 'auto', which the
\* line branch leaves in place.  shows is not a field of the Chart: it
\* records the data object the chart now displays.
ChartAfter(chart, data, elementIdPrefix, currentType) ==
  LET isPositive == GE(data.currentPrice, data.prevClose)
      label == IF elementIdPrefix = "search" THEN data.name ELSE <<>>
  IN IF currentType = "candlestick"
     THEN [type |-> currentType, xType |-> "time", xTicksSource |-> "auto",
           labels |-> <<>>,
           datasets |-> <<[label |-> label, data |-> OhlcData(data.ohlc),
                           borderColor |-> "#555"]>>,
           shows |-> data, instance |-> chart.instance]
     ELSE [type |-> currentType, xType |-> Undefined,
           xTicksSource |-> chart.xTicksSource,
           labels |-> Labels(data.timestamps),
           datasets |-> <<[label |-> label, data |-> data.prices,
                           borderColor |-> IF isPositive THEN "#2ebd85"
                                           ELSE "#f6465d"]>>,
           shows |-> data, instance |-> chart.instance]

\* current.toLocaleString(...) on null or undefined is a TypeError.
PriceDisplayThrows(prefix, current) ==
  HasPriceEls(prefix) /\ current \in {NullNum, UndefNum}

\* updatePriceDisplay / updateSearchPriceDisplay: the two elements' content.
PriceAfter(old, prefix, current, prevClose) ==
  IF ~HasPriceEls(prefix) \/ PriceDisplayThrows(prefix, current)
  THEN old
  ELSE [set |-> TRUE, price |-> current,
        up |-> IF IsNaN(prevClose) THEN FALSE ELSE current - Num(prevClose) >= 0]

\* updateChartUI(chart, data, elementIdPrefix, true, currentType): the chart
\* and the price display it leaves, and whether it threw.  An undefined chart
\* throws at chart.config, before anything is written.
UpdateChartUI(chart, oldPrice, data, elementIdPrefix, currentType) ==
  IF chart = NoChart
  THEN [chart |-> chart, price |-> oldPrice, threw |-> TRUE]
  ELSE [chart |-> ChartAfter(chart, data, elementIdPrefix, currentType),
        price |-> PriceAfter(oldPrice, elementIdPrefix, data.currentPrice,
                             data.prevClose),
        threw |-> PriceDisplayThrows(elementIdPrefix, data.currentPrice)]

\* ------------------------------------------------------------ suspended calls
\* A call of fetchStockData suspended in its loop, with the async function
\* that awaits it: kind names that caller, k the index position it works on
\* (0: none).  n and run are not variables of the code: n counts the HTTP
\* requests this call has issued, run tells the runs of updateDashboard apart
\* (the number of the timer event that started the run; 0 elsewhere).
FetchCall(kind, k, symbol, range, interval, retries) ==
  [kind |-> kind, k |-> k, symbol |-> symbol, range |-> range,
   interval |-> interval, retries |-> retries, i |-> 0, st |-> "fetch", n |-> 1,
   run |-> 0]

Spawn(t) == tasks (+) SetToBag({t})
Retire(t) == tasks (-) SetToBag({t})
Suspended == BagToSet(tasks)

\* { ...data, symbol, range, interval }
WithParams(data, symbol, range, interval) ==
  [ohlc |-> data.ohlc, prices |-> data.prices, timestamps |-> data.timestamps,
   currentPrice |-> data.currentPrice, prevClose |-> data.prevClose,
   lastUpdated |-> data.lastUpdated, name |-> data.name, req |-> data.req,
   symbol |-> symbol, range |-> range, interval |-> interval]

\* What `last` says of a handler that has run: the handler, the slot id and
\* the range, interval and type it was given, what it went on to do (out: "fetch",
\* "render", or the reason it did neither) and, for the search slot, the symbol
\* it settled on.
Handled(op, id, range, interval, type) ==
  [op |-> op, id |-> id, range |-> range, interval |-> interval, type |-> type,
   out |-> "nothing", symbol |-> <<>>]

\* --------------------------------------------------------------- handleSearch
\* const shouldFetchNewData = !(lastFetchedData && lastFetchedData.symbol === symbol
\*     && lastFetchedData.range === range && lastFetchedData.interval === interval)
ShouldFetchNewData(cached, symbol, range, interval) ==
  ~(/\ cached # NoData
    /\ cached.symbol = symbol
    /\ cached.range = range
    /\ cached.interval = interval)

\* The symbol handleSearch settles on: the trimmed, upper-cased field, or the
\* stored symbol when the field is empty; then the exchange suffix when one is
\* selected and the symbol has no dot.
TypedSymbol(stockCode) == ToUpperCase(Trim(stockCode))

BaseSymbol(stockCode, stored) ==
  IF TypedSymbol(stockCode) = <<>> /\ stored # <<>>
  THEN stored
  ELSE TypedSymbol(stockCode)

SearchSymbol(stockCode, suffix, stored) ==
  LET symbol == BaseSymbol(stockCode, stored)
  IN IF suffix # <<>> /\ ~Includes(symbol, ".") THEN symbol \o suffix ELSE symbol

\* Lines 439-456: show the result section, write the headers, create the
\* search chart if there is none, and render.  d is the dom so far.
SearchShow(data, symbol, d) ==
  LET chart == SearchChartFor(charts["searchResult"])
      r == UpdateChartUI(chart, d.price["search"], data, "search", currentChartType')
  IN /\ charts' = [charts EXCEPT !["searchResult"] = r.chart]
     /\ dom' = [d EXCEPT !.resultSection = "block", !.searchName = data.name,
                         !.searchSymbol = symbol, !.price["search"] = r.price]
     /\ unhandled' = IF r.threw THEN unhandled \cup {"handleSearch"} ELSE unhandled

\* handleSearch(range, interval, chartType) up to its await (or to its end
\* when it does not fetch).  via names the handler that called it.
HandleSearchRun(range, interval, chartType, via) ==
  LET symbol == SearchSymbol(dom.stockCode, dom.exchange, currentSearchSymbol)
      fetches == ShouldFetchNewData(lastFetchedData, symbol, range, interval)
      reset == [dom EXCEPT !.searchError = "none"]
  IN /\ currentChartType' = IF Truthy(chartType) THEN chartType ELSE currentChartType
     /\ UNCHANGED <<indices, absent>>
     /\ IF symbol = <<>>
        THEN /\ UNCHANGED <<currentSearchSymbol, lastFetchedData, dom, charts,
                            tasks, unhandled>>
             /\ last' = [via EXCEPT !.out = "nothing", !.symbol = symbol]
        ELSE /\ currentSearchSymbol' = symbol
             /\ UNCHANGED lastFetchedData
             /\ IF fetches
                THEN /\ dom' = [reset EXCEPT !.searchBtnDisabled = TRUE]
                     /\ tasks' = Spawn(FetchCall("search", 0, symbol, range, interval,
                                                 DefaultRetries))
                     /\ UNCHANGED <<charts, unhandled>>
                     /\ last' = [via EXCEPT !.out = "fetch", !.symbol = symbol]
                ELSE /\ SearchShow(lastFetchedData, symbol, reset)
                     /\ UNCHANGED tasks
                     /\ last' = [via EXCEPT !.out = "render", !.symbol = symbol]

\* The search button's click and the field's Enter: handleSearch('5y', '1mo').
ClickSearch ==
  /\ nEvents < MaxEvents
  /\ nEvents' = nEvents + 1
  /\ HandleSearchRun("5y", "1mo", Undefined,
                     Handled("handleSearch", "search", "5y", "1mo", Undefined))

\* The user edits #stock-code.
TypeStockCode(v) ==
  /\ v # dom.stockCode
  /\ dom' = [dom EXCEPT !.stockCode = v]
  /\ last' = [op |-> "input", id |-> "search", out |-> "nothing"]
  /\ UNCHANGED <<indices, charts, currentSearchSymbol, currentChartType,
                 lastFetchedData, absent, tasks, unhandled, nEvents>>

\* The user picks another option of #exchange-select.
SelectExchange(v) ==
  /\ v # dom.exchange
  /\ dom' = [dom EXCEPT !.exchange = v]
  /\ last' = [op |-> "select", id |-> "search", out |-> "nothing"]
  /\ UNCHANGED <<indices, charts, currentSearchSymbol, currentChartType,
                 lastFetchedData, absent, tasks, unhandled, nEvents>>

\* ---------------------------------------------------------- handleChartUpdate
\* range || (lastFetchedData ? lastFetchedData.range : undefined), and then
\* handleSearch's default for an undefined argument.
NextRange(range) ==
  IF Truthy(range) THEN range
  ELSE IF lastFetchedData # NoData THEN lastFetchedData.range
  ELSE DefaultRange

NextInterval(interval) ==
  IF Truthy(interval) THEN interval
  ELSE IF lastFetchedData # NoData THEN lastFetchedData.interval
  ELSE DefaultInterval

\* Lines 475-481: the state object after the update of its params and type.
UpdatedState(target, range, interval, type) ==
  [target EXCEPT
     !.range = IF Truthy(range) THEN range ELSE @,
     !.interval = IF Truthy(range) THEN interval ELSE @,
     !.type = IF Truthy(type) THEN type ELSE @]

\* Lines 498-509: fetch when a range was given, or when nothing is cached.
FetchesForIndex(range, target) == Truthy(range) \/ target.lastData = NoData

\* handleChartUpdate(chartId, range, interval, type) for an id other than
\* 'search', up to its await (or to its end when it does not fetch).
HandleIndexUpdate(chartId, range, interval, type) ==
  LET k == FindIndex(chartId)
      target == UpdatedState(indices[k], range, interval, type)
      r == UpdateChartUI(charts[chartId], dom.price[chartId], target.lastData,
                         chartId, target.type)
  IN /\ UNCHANGED <<currentSearchSymbol, currentChartType, lastFetchedData, absent>>
     /\ IF k = 0
        THEN /\ UNCHANGED <<indices, charts, dom, tasks, unhandled>>
             /\ last' = [Handled("handleChartUpdate", chartId, range, interval, type)
                                 EXCEPT !.out = "nothing"]
        ELSE /\ indices' = [indices EXCEPT ![k] = target]
             /\ IF ~HasWrapper(chartId)
                THEN /\ UNCHANGED <<charts, dom, tasks, unhandled>>
                     /\ last' = [Handled("handleChartUpdate", chartId, range, interval, type)
                                 EXCEPT !.out = "nowrapper"]
                ELSE IF FetchesForIndex(range, target)
                THEN /\ tasks' = Spawn(FetchCall("update", k, target.symbol,
                                                 target.range, target.interval,
                                                 DefaultRetries))
                     /\ UNCHANGED <<charts, dom, unhandled>>
                     /\ last' = [Handled("handleChartUpdate", chartId, range, interval, type)
                                 EXCEPT !.out = "fetch"]
                ELSE IF charts[chartId] # NoChart
                THEN /\ charts' = [charts EXCEPT ![chartId] = r.chart]
                     /\ dom' = [dom EXCEPT !.price[chartId] = r.price]
                     /\ unhandled' = IF r.threw
                                     THEN unhandled \cup {"handleChartUpdate"}
                                     ELSE unhandled
                     /\ UNCHANGED tasks
                     /\ last' = [Handled("handleChartUpdate", chartId, range, interval, type)
                                 EXCEPT !.out = "render"]
                ELSE /\ UNCHANGED <<charts, dom, tasks, unhandled>>
                     /\ last' = [Handled("handleChartUpdate", chartId, range, interval, type)
                                 EXCEPT !.out = "nochart"]

\* handleChartUpdate(chartId, range, interval, type), as the delegated click
\* listener calls it: a range button gives range and interval and a null type,
\* a type button gives a type and null range and interval.
HandleChartUpdate(chartId, range, interval, type) ==
  /\ nEvents < MaxEvents
  /\ nEvents' = nEvents + 1
  /\ IF chartId = "search"
     THEN HandleSearchRun(NextRange(range), NextInterval(interval), type,
                          Handled("handleChartUpdate", chartId, range, interval, type))
     ELSE HandleIndexUpdate(chartId, range, interval, type)

ClickRange(chartId, preset) ==
  HandleChartUpdate(chartId, preset.range, preset.interval, Null)

ClickType(chartId, type) ==
  HandleChartUpdate(chartId, Null, Null, type)

\* ------------------------------------------------------- the fixed slots' loops
\* (mutant of TimerTick: updateDashboard starts every index's update at once)
TimerTickAll ==
  /\ nEvents < MaxEvents
  /\ nEvents' = nEvents + 1
  /\ tasks' = tasks (+) SetToBag({[FetchCall("refresh", k, indices[k].symbol,
                                             indices[k].range, indices[k].interval,
                                             DefaultRetries)
                                     EXCEPT !.run = nEvents + 1] :
                                     k \in 1..Len(indices)})
  /\ last' = [op |-> "updateDashboard", id |-> indices[1].id, out |-> "fetch"]
  /\ UNCHANGED <<indices, charts, currentSearchSymbol, currentChartType,
                 lastFetchedData, dom, absent, unhandled>>

\* setInterval(updateDashboard, 60000) fires: updateDashboard runs up to the
\* await of its first updateIndexData, whose fetch reads the index's params.
TimerTick ==
  /\ nEvents < MaxEvents
  /\ nEvents' = nEvents + 1
  /\ tasks' = Spawn([FetchCall("refresh", 1, indices[1].symbol, indices[1].range,
                               indices[1].interval, DefaultRetries)
                       EXCEPT !.run = nEvents + 1])
  /\ last' = [op |-> "updateDashboard", id |-> indices[1].id, out |-> "fetch"]
  /\ UNCHANGED <<indices, charts, currentSearchSymbol, currentChartType,
                 lastFetchedData, dom, absent, unhandled>>

\* What `last` says of a call of fetchStockData that has returned to its
\* caller: the caller, the slot, the requests made, the last attempt's outcome
\* (a failure, or the kind of body) and whether the caller then threw.
Returned(t, data, outcome, threw) ==
  [op |-> "return", kind |-> t.kind,
   id |-> IF t.k = 0 THEN (IF t.kind = "search" THEN "search" ELSE "-")
          ELSE indices[t.k].id,
   got |-> IF data = NoData THEN "null" ELSE "data",
   outcome |-> outcome, n |-> t.n, retries |-> t.retries, threw |-> threw,
   result |-> data,
   req |-> [symbol |-> t.symbol, range |-> t.range, interval |-> t.interval]]

\* (mutant of IndexCache: the assignment without the guard)
IndexCacheUnguarded(old, data) == data

\* if (!data) return; index.lastData = data;
IndexCache(old, data) == IF data = NoData THEN old ELSE data

\* (mutant of UpdateCache: the first response to arrive is kept)
UpdateCacheFirstWins(old, data) == IF old = NoData THEN data ELSE old

\* if (data) targetState.lastData = data;
UpdateCache(old, data) == IF data = NoData THEN old ELSE data

\* updateIndexData(index) from `if (!data) return` on, and then the loop of
\* initCharts / updateDashboard up to the next await: a throw of updateChartUI
\* rejects the loop's promise and ends the loop.
ResumeLoop(t, data, outcome) ==
  LET index == indices[t.k]
      r == UpdateChartUI(charts[index.id], dom.price[index.id], data, index.id,
                         index.type)
      threw == data # NoData /\ r.threw
      rendered == IF data = NoData THEN charts
                  ELSE [charts EXCEPT ![index.id] = r.chart]
      more == ~threw /\ t.k < Len(indices)
      next == indices[t.k + 1]
  IN /\ indices' = [indices EXCEPT ![t.k].lastData = IndexCache(@, data)]
     /\ charts' = IF more /\ t.kind = "init"
                  THEN [rendered EXCEPT ![next.id] = InitialIndexChart(next)]
                  ELSE rendered
     /\ dom' = IF data = NoData THEN dom
               ELSE [dom EXCEPT !.price[index.id] = r.price]
     /\ unhandled' = IF threw
                     THEN unhandled \cup {IF t.kind = "init" THEN "initCharts"
                                          ELSE "updateDashboard"}
                     ELSE unhandled
     /\ tasks' = IF more
                 THEN Retire(t) (+) SetToBag({[FetchCall(t.kind, t.k + 1, next.symbol,
                                                         next.range, next.interval,
                                                         DefaultRetries)
                                                 EXCEPT !.run = t.run]})
                 ELSE Retire(t)
     /\ last' = Returned(t, data, outcome, threw)
     /\ UNCHANGED <<currentSearchSymbol, currentChartType, lastFetchedData>>

\* handleChartUpdate from the settling of its await (lines 500-513).
ResumeUpdate(t, data, outcome) ==
  LET target == indices[t.k]
      renders == data # NoData /\ charts[target.id] # NoChart
      r == UpdateChartUI(charts[target.id], dom.price[target.id], data, target.id,
                         target.type)
      threw == renders /\ r.threw
  IN /\ indices' = [indices EXCEPT ![t.k].lastData = UpdateCache(@, data)]
     /\ charts' = IF renders THEN [charts EXCEPT ![target.id] = r.chart] ELSE charts
     /\ dom' = IF renders THEN [dom EXCEPT !.price[target.id] = r.price] ELSE dom
     /\ unhandled' = IF threw THEN unhandled \cup {"handleChartUpdate"} ELSE unhandled
     /\ tasks' = Retire(t)
     /\ last' = Returned(t, data, outcome, threw)
     /\ UNCHANGED <<currentSearchSymbol, currentChartType, lastFetchedData>>

\* if (!data || data.prices.length === 0) throw ...
SearchFailed(data) == data = NoData \/ Len(data.prices) = 0

\* handleSearch from the settling of its await (lines 416-456).  The search
\* button is re-enabled on both paths (catch and finally).
ResumeSearch(t, data, outcome) ==
  LET enabled == [dom EXCEPT !.searchBtnDisabled = FALSE]
  IN /\ UNCHANGED <<indices, currentSearchSymbol, currentChartType>>
     /\ tasks' = Retire(t)
     /\ IF SearchFailed(data)
        THEN /\ dom' = [enabled EXCEPT !.searchError = "block",
                                       !.resultSection = "none"]
             /\ UNCHANGED <<lastFetchedData, charts, unhandled>>
             /\ last' = Returned(t, data, outcome, FALSE)
        ELSE /\ lastFetchedData' = WithParams(data, t.symbol, t.range, t.interval)
             /\ SearchShow(data, t.symbol, enabled)
             /\ last' = Returned(t, data, outcome,
                                 PriceDisplayThrows("search", data.currentPrice))

\* A direct call of fetchStockData returns to a caller that only keeps the
\* result.
ResumeDirect(t, data, outcome) ==
  /\ tasks' = Retire(t)
  /\ last' = Returned(t, data, outcome, FALSE)
  /\ UNCHANGED <<indices, charts, currentSearchSymbol, currentChartType,
                 lastFetchedData, dom, unhandled>>

\* The caller's continuation once fetchStockData has returned data (or null).
Resume(t, data, outcome) ==
  /\ UNCHANGED <<absent, nEvents>>
  /\ CASE t.kind \in {"init", "refresh"} -> ResumeLoop(t, data, outcome)
       [] t.kind = "update" -> ResumeUpdate(t, data, outcome)
       [] t.kind = "search" -> ResumeSearch(t, data, outcome)
       [] OTHER -> ResumeDirect(t, data, outcome)

\* ------------------------------------------------- fetchStockData, step by step
\* One attempt ends in the catch block: return null on the last attempt,
\* otherwise wait 500 ms.
AttemptFails(t, cause) ==
  /\ t \in Suspended
  /\ t.st = "fetch"
  /\ Caught(cause)
  /\ IF GivesUp(cause, t.i, t.retries)
     THEN Resume(t, NoData, cause)
     ELSE /\ tasks' = Retire(t) (+) SetToBag({[t EXCEPT !.st = "backoff"]})
          /\ last' = [op |-> "caught", kind |-> t.kind, outcome |-> cause,
                      n |-> t.n, retries |-> t.retries]
          /\ UNCHANGED <<indices, charts, currentSearchSymbol, currentChartType,
                         lastFetchedData, dom, absent, unhandled, nEvents>>

\* The 500 ms are over: the loop's next iteration issues its request.
BackoffElapsed(t) ==
  /\ t \in Suspended
  /\ t.st = "backoff"
  /\ tasks' = Retire(t) (+) SetToBag({[t EXCEPT !.st = "fetch", !.i = t.i + 1,
                                                !.n = t.n + 1]})
  /\ last' = [op |-> "retry", kind |-> t.kind, n |-> t.n + 1, retries |-> t.retries]
  /\ UNCHANGED <<indices, charts, currentSearchSymbol, currentChartType,
                 lastFetchedData, dom, absent, unhandled, nEvents>>

\* One attempt gets a well-formed body: the call returns its normalisation.
AttemptSucceeds(t, kind) ==
  /\ t \in Suspended
  /\ t.st = "fetch"
  /\ Resume(t, Normalize(Upstream(kind, t.symbol, t.range, t.interval), t.symbol),
            kind)

\* ------------------------------------------------------------ specifications
\* The page as served, before any script has touched it.
InitialDom ==
  [stockCode |-> <<>>, exchange |-> <<>>, searchError |-> "none",
   resultSection |-> "none", searchBtnDisabled |-> FALSE,
   searchName |-> <<>>, searchSymbol |-> <<>>,
   price |-> [p \in IndexIds \cup {"search"} |-> [set |-> FALSE]]]

\* Pages the script may be loaded into: the full page, and a page whose last
\* index lacks its controls wrapper and its price elements.
Pages ==
  LET id == IndexDefs[Len(IndexDefs)].id
  IN {{}, {<<"wrapper", id>>, <<"price", id>>}}

\* A session exercises the index slots (their clicks, the timer, the loops'
\* fetches) or the search slot (the field, the selector, the search clicks and
\* fetches, while the first fetch of initCharts is still unanswered).
Sessions == {"index", "search"}

\* The script's globals and the page once the script has been evaluated.
Evaluated ==
  /\ indices = IndexDefs
  /\ currentSearchSymbol = <<>>
  /\ currentChartType = "candlestick"
  /\ lastFetchedData = NoData
  /\ dom = InitialDom
  /\ unhandled = {}
  /\ nEvents = 0
  /\ hist = [phase |-> "idle"]

\* The state once the DOMContentLoaded handler has run: initCharts has created
\* the first chart and awaits the first fetch.
Loaded ==
  /\ Evaluated
  /\ charts = [key \in ChartKeys |->
                 IF key = IndexDefs[1].id THEN InitialIndexChart(IndexDefs[1])
                 ELSE NoChart]
  /\ tasks = SetToBag({FetchCall("init", 1, IndexDefs[1].symbol, IndexDefs[1].range,
                                 IndexDefs[1].interval, DefaultRetries)})
  /\ last = [op |-> "DOMContentLoaded", id |-> "-", out |-> "fetch"]

Init ==
  /\ Loaded
  /\ session \in Sessions
  /\ absent \in IF session = "index" THEN Pages ELSE {{}}

InSession(s) == session = s /\ UNCHANGED <<session, hist>>

IndexCalls == {"init", "refresh", "update"}

IndexNext ==
  \/ \E chartId \in IndexIds \cup UnknownIds, preset \in Presets :
       InSession("index") /\ ClickRange(chartId, preset)
  \/ \E chartId \in IndexIds \cup UnknownIds, type \in ChartTypes :
       InSession("index") /\ ClickType(chartId, type)
  \/ InSession("index") /\ TimerTick
  \/ \E t \in Suspended, cause \in Failures :
       InSession("index") /\ t.kind \in IndexCalls /\ AttemptFails(t, cause)
  \/ \E t \in Suspended :
       InSession("index") /\ t.kind \in IndexCalls /\ BackoffElapsed(t)
  \/ \E t \in Suspended, kind \in BodyKinds :
       InSession("index") /\ t.kind \in IndexCalls /\ AttemptSucceeds(t, kind)

SearchNext ==
  \/ InSession("search") /\ ClickSearch
  \/ \E v \in StockCodes : InSession("search") /\ TypeStockCode(v)
  \/ \E v \in Exchanges : InSession("search") /\ SelectExchange(v)
  \/ \E preset \in Presets : InSession("search") /\ ClickRange("search", preset)
  \/ \E type \in ChartTypes : InSession("search") /\ ClickType("search", type)
  \/ \E t \in Suspended, cause \in Failures :
       InSession("search") /\ t.kind = "search" /\ AttemptFails(t, cause)
  \/ \E t \in Suspended :
       InSession("search") /\ t.kind = "search" /\ BackoffElapsed(t)
  \/ \E t \in Suspended, kind \in BodyKinds :
       InSession("search") /\ t.kind = "search" /\ AttemptSucceeds(t, kind)

Next == IndexNext \/ SearchNext

\* Every session.
Spec == Init /\ [][Next]_vars

\* The sessions on their own.
IndexInit == Init /\ session = "index"

IndexSpec == IndexInit /\ [][IndexNext]_vars

SearchInit == Init /\ session = "search"

SearchSpec == SearchInit /\ [][SearchNext]_vars

\* fetchStockData on its own: one direct call, for every retries argument up
\* to MaxRetries, stepped to its return.
FetchSymbols == {IndexDefs[1].symbol, <<"A">>}

FetchInit ==
  /\ Evaluated
  /\ charts = [key \in ChartKeys |-> NoChart]
  /\ absent = {}
  /\ session = "fetch"
  /\ \E symbol \in FetchSymbols, preset \in Presets, retries \in 0..MaxRetries :
       tasks = SetToBag({FetchCall("direct", 0, symbol, preset.range,
                                   preset.interval, retries)})
  /\ last = [op |-> "call", id |-> "-", out |-> "fetch"]

FetchNext ==
  \/ \E t \in Suspended, cause \in Failures :
       InSession("fetch") /\ AttemptFails(t, cause)
  \/ \E t \in Suspended : InSession("fetch") /\ BackoffElapsed(t)
  \/ \E t \in Suspended, kind \in BodyKinds :
       InSession("fetch") /\ AttemptSucceeds(t, kind)

FetchSpec == FetchInit /\ [][FetchNext]_vars

\* fetchStockData's normalisation on its own: one well-formed response, drawn
\* from every combination of the arrays below, and its normalisation.  The
\* upstream is not validated by the code, so the timestamps come in any order
\* and the quote arrays may hold nulls, be shorter than the timestamps, or be
\* missing (quotes.close || []).  The times sit on both sides of the label
\* thresholds of updateChartUI.
Times == {0, 172800, 172801, 31536000, 31536001}

SeqsUpTo(S, n) == UNION {[1..m -> S] : m \in 0..n}

RawStamps == SeqsUpTo(Times, MaxPoints)
RawOpens == {<<10, 11>>, <<NullNum, 11>>, <<10>>}
RawCloses == {<<11, 12>>, <<11, NullNum>>, <<>>}

RawResult(stamps, opens, closes) ==
  [timestamp |-> stamps, open |-> opens, high |-> <<12, 12>>, low |-> <<9, 10>>,
   close |-> closes, regularMarketPrice |-> 13, chartPreviousClose |-> 11,
   shortName |-> <<>>, longName |-> <<>>,
   req |-> [symbol |-> <<"A">>, range |-> "1d", interval |-> "5m"]]

RawResults ==
  {RawResult(stamps, opens, closes) :
     stamps \in RawStamps, opens \in RawOpens, closes \in RawCloses}

NormalizeInit ==
  /\ Evaluated
  /\ charts = [key \in ChartKeys |-> NoChart]
  /\ absent = {}
  /\ tasks = EmptyBag
  /\ session = "normalize"
  /\ \E result \in RawResults : last = [op |-> "response", result |-> result]

\* Lines 95-126 applied to the response.
NormalizeStep ==
  /\ last.op = "response"
  /\ last' = [op |-> "normalized", input |-> last.result,
              result |-> Normalize(last.result, last.result.req.symbol)]
  /\ UNCHANGED <<indices, charts, currentSearchSymbol, currentChartType,
                 lastFetchedData, dom, absent, tasks, unhandled, nEvents>>

NormalizeNext == InSession("normalize") /\ NormalizeStep

NormalizeSpec == NormalizeInit /\ [][NormalizeNext]_vars

\* updateChartUI on its own: a chart as new Chart left it, a data object
\* (the normalisation of one of the responses above) and an element-id prefix,
\* and then any sequence of calls updateChartUI(chart, data, prefix, true, type).
RenderPrefixes == {IndexDefs[1].id, "search"}

RenderInit ==
  /\ Evaluated
  /\ absent = {}
  /\ tasks = EmptyBag
  /\ session = "render"
  /\ \E result \in RawResults, prefix \in RenderPrefixes :
       /\ last = [op |-> "input", prefix |-> prefix, type |-> Undefined,
                  data |-> Normalize(result, result.req.symbol)]
       /\ charts = [key \in ChartKeys |->
                      IF key # ChartKeyOf(prefix) THEN NoChart
                      ELSE IF prefix = "search" THEN InitialSearchChart
                      ELSE InitialIndexChart(IndexDefs[1])]

RenderStep(type) ==
  LET prefix == last.prefix
      key == ChartKeyOf(prefix)
      r == UpdateChartUI(charts[key], dom.price[prefix], last.data, prefix, type)
  IN /\ charts' = [charts EXCEPT ![key] = r.chart]
     /\ dom' = [dom EXCEPT !.price[prefix] = r.price]
     /\ unhandled' = IF r.threw THEN unhandled \cup {"updateChartUI"} ELSE unhandled
     /\ last' = [last EXCEPT !.op = "render", !.type = type]
     /\ UNCHANGED <<indices, currentSearchSymbol, currentChartType,
                    lastFetchedData, absent, tasks, nEvents>>

RenderNext == \E type \in ChartTypes : InSession("render") /\ RenderStep(type)

RenderSpec == RenderInit /\ [][RenderNext]_vars

\* One call made twice: initCharts runs to its end, the user fills the search
\* field, then handleChartUpdate or the search button's handleSearch is called,
\* runs until nothing of it is suspended, and is called again with the same
\* arguments, the upstream answering the second call's requests as it answered
\* the first's.
NoArgs == [range |-> Null, interval |-> Null]

Calls ==
  {[op |-> "handleChartUpdate", id |-> id, range |-> p.range,
    interval |-> p.interval, type |-> type] :
     id \in IndexIds \cup {"search"}, p \in Presets \cup {NoArgs},
     type \in ChartTypes \cup {Null}}
  \cup {[op |-> "handleSearch", id |-> "search", range |-> "5y",
         interval |-> "1mo", type |-> Undefined]}

Invoke(call) ==
  IF call.op = "handleSearch" THEN ClickSearch
  ELSE HandleChartUpdate(call.id, call.range, call.interval, call.type)

\* The fields of a Chart object (without the model's shows and instance).
ChartConfig(chart) ==
  IF chart = NoChart THEN chart
  ELSE [type |-> chart.type, xType |-> chart.xType,
        xTicksSource |-> chart.xTicksSource, labels |-> chart.labels,
        datasets |-> chart.datasets]

\* What a call leaves behind: the slots' params, types and cached series, the
\* charts, the page, and the rejections.
SnapshotOf(ix, chs, symbol, type, cached, d, rejected) ==
  [indices |-> ix, charts |-> [key \in ChartKeys |-> ChartConfig(chs[key])],
   currentSearchSymbol |-> symbol, currentChartType |-> type,
   lastFetchedData |-> cached, dom |-> d, unhandled |-> rejected]

\* The same, in the state a step leads to.
SnapshotAfter ==
  SnapshotOf(indices', charts', currentSearchSymbol', currentChartType',
             lastFetchedData', dom', unhandled')

InRepeat == session = "repeat" /\ UNCHANGED session

\* hist after a step of the first call that got the response `got`.
FirstCallStep(got) ==
  hist' = IF tasks' = EmptyBag
          THEN [phase |-> "settled", call |-> hist.call,
                outcomes |-> hist.outcomes \o got, snap |-> SnapshotAfter]
          ELSE [phase |-> "first", call |-> hist.call,
                outcomes |-> hist.outcomes \o got]

\* hist after a step of the second call that used up `used` recorded responses.
SecondCallStep(used) ==
  hist' = IF tasks' = EmptyBag
          THEN [phase |-> "done", call |-> hist.call, snap |-> hist.snap]
          ELSE [phase |-> "second", call |-> hist.call,
                outcomes |-> SubSeq(hist.outcomes, used + 1, Len(hist.outcomes)),
                snap |-> hist.snap]

RepeatInit ==
  /\ Loaded
  /\ session = "repeat"
  /\ absent \in Pages

RepeatNext ==
  \/ \E t \in Suspended, cause \in Failures :
       InRepeat /\ hist.phase = "idle" /\ AttemptFails(t, cause) /\ UNCHANGED hist
  \/ \E t \in Suspended :
       InRepeat /\ hist.phase = "idle" /\ BackoffElapsed(t) /\ UNCHANGED hist
  \/ \E t \in Suspended, kind \in BodyKinds :
       InRepeat /\ hist.phase = "idle" /\ AttemptSucceeds(t, kind) /\ UNCHANGED hist
  \/ \E v \in StockCodes :
       /\ InRepeat /\ hist.phase = "idle" /\ tasks = EmptyBag
       /\ TypeStockCode(v) /\ UNCHANGED hist
  \/ \E v \in Exchanges :
       /\ InRepeat /\ hist.phase = "idle" /\ tasks = EmptyBag
       /\ SelectExchange(v) /\ UNCHANGED hist
  \/ \E call \in Calls :
       /\ InRepeat /\ hist.phase = "idle" /\ tasks = EmptyBag
       /\ Invoke(call)
       /\ hist' = IF tasks' = EmptyBag
                  THEN [phase |-> "settled", call |-> call, outcomes |-> <<>>,
                        snap |-> SnapshotAfter]
                  ELSE [phase |-> "first", call |-> call, outcomes |-> <<>>]
  \/ \E t \in Suspended, cause \in Failures :
       /\ InRepeat /\ hist.phase = "first"
       /\ AttemptFails(t, cause) /\ FirstCallStep(<<cause>>)
  \/ \E t \in Suspended :
       InRepeat /\ hist.phase = "first" /\ BackoffElapsed(t) /\ FirstCallStep(<<>>)
  \/ \E t \in Suspended, kind \in BodyKinds :
       /\ InRepeat /\ hist.phase = "first"
       /\ AttemptSucceeds(t, kind) /\ FirstCallStep(<<kind>>)
  \/ /\ InRepeat /\ hist.phase = "settled"
     /\ Invoke(hist.call)
     /\ SecondCallStep(0)
  \/ \E t \in Suspended :
       /\ InRepeat /\ hist.phase = "second" /\ hist.outcomes # <<>>
       /\ Head(hist.outcomes) \in Failures
       /\ AttemptFails(t, Head(hist.outcomes)) /\ SecondCallStep(1)
  \/ \E t \in Suspended :
       InRepeat /\ hist.phase = "second" /\ BackoffElapsed(t) /\ SecondCallStep(0)
  \/ \E t \in Suspended :
       /\ InRepeat /\ hist.phase = "second" /\ hist.outcomes # <<>>
       /\ Head(hist.outcomes) \in BodyKinds
       /\ AttemptSucceeds(t, Head(hist.outcomes)) /\ SecondCallStep(1)

RepeatSpec == RepeatInit /\ [][RepeatNext]_vars

\* ------------------------------------------------------------------ claims
\* The fetch whose return `l` reports failed: fetchStockData returned null, or
\* (handleSearch only) returned a series without prices.
FetchFailed(l) == l.got = "null" \/ (l.kind = "search" /\ l.outcome = "empty")

\* C1: a failed fetch leaves the caches as they were: the step in which a
\* caller of fetchStockData resumes with a failed fetch changes no index's
\* lastData and not lastFetchedData, and no step at all turns a cache that
\* holds data into an empty one.
C1_FailedFetchKeepsCache ==
  [][/\ (last'.op = "return" /\ FetchFailed(last')) =>
          /\ \A k \in 1..Len(indices) : indices'[k].lastData = indices[k].lastData
          /\ lastFetchedData' = lastFetchedData
     /\ \A k \in 1..Len(indices) :
          indices[k].lastData # NoData => indices'[k].lastData # NoData
     /\ lastFetchedData # NoData => lastFetchedData' # NoData]_vars

\* A refresh or range change of an index that holds data has just failed.
C1_Witness ==
  /\ last.op = "return"
  /\ last.got = "null"
  /\ last.kind \in {"refresh", "update"}
  /\ indices[FindIndex(last.id)].lastData # NoData

\* C2: in every state the series cached for a slot was fetched with the
\* (symbol, range, interval) the slot records as its params.
C2_SeriesMatchesParams ==
  /\ \A k \in 1..Len(indices) :
       indices[k].lastData # NoData =>
         indices[k].lastData.req = [symbol |-> indices[k].symbol,
                                    range |-> indices[k].range,
                                    interval |-> indices[k].interval]
  /\ lastFetchedData # NoData =>
       lastFetchedData.req = [symbol |-> lastFetchedData.symbol,
                              range |-> lastFetchedData.range,
                              interval |-> lastFetchedData.interval]

\* C3: a click on a range or type button of an index (with its controls
\* wrapper) fetches exactly when the index has no cached series or the params
\* it now asks for differ from those the cached series was fetched with.
C3_FetchIffStale ==
  [][\A k \in 1..Len(indices) :
       (/\ last'.op = "handleChartUpdate"
        /\ last'.id = indices[k].id
        /\ HasWrapper(indices[k].id)) =>
         (last'.out = "fetch" <=>
            \/ indices[k].lastData = NoData
            \/ indices[k].lastData.req # [symbol |-> indices'[k].symbol,
                                          range |-> indices'[k].range,
                                          interval |-> indices'[k].interval])]_vars

\* The slot named id holds a cached series.
Cached(id) ==
  IF id = "search" THEN lastFetchedData # NoData
  ELSE FindIndex(id) # 0 /\ indices[FindIndex(id)].lastData # NoData

\* C4: a type toggle (a type, no range) on a slot that holds a cached series
\* issues no fetch and renders.
C4_TypeToggleNeverFetches ==
  [][(/\ last'.op = "handleChartUpdate"
      /\ ~Truthy(last'.range)
      /\ Truthy(last'.type)
      /\ Cached(last'.id)) =>
        (last'.out = "render" /\ tasks' = tasks)]_vars

\* C5: a call of fetchStockData with retries r makes at most r + 1 requests;
\* it returns null only after r + 1 failed ones, and returns the series of
\* its k-th request as soon as that one succeeds, having made k requests.
C5_RetryBudget ==
  /\ \A t \in Suspended : t.n <= t.retries + 1
  /\ last.op = "caught" => last.n <= last.retries
  /\ last.op = "return" =>
       /\ tasks = EmptyBag
       /\ last.got = "null" =>
            last.outcome \in Failures /\ last.n = last.retries + 1
       /\ last.got = "data" =>
            /\ last.outcome \in BodyKinds
            /\ last.n <= last.retries + 1
            /\ last.result = Normalize(Upstream(last.outcome, last.req.symbol,
                                                last.req.range, last.req.interval),
                                       last.req.symbol)

\* Two failures with retries = 1: two requests, then null.
C5_Witness ==
  /\ last.op = "return"
  /\ last.got = "null"
  /\ last.retries = 1
  /\ last.n = 2

\* C6 as stated: only a transport or HTTP-status failure is followed by
\* another attempt: whenever the catch block goes on to wait for the next
\* attempt, what it caught was such a failure.
C6_OnlyNetworkRetried == last.op = "caught" => last.outcome = "net"

\* C6 as amended: every failed attempt, malformed bodies included, is followed
\* by another attempt while the budget lasts (a failure of either class ends
\* the call only as its request number retries + 1); a well-formed body
\* without points is a success, returned at once as an empty series.
C6_EveryFailureRetried ==
  /\ \A cause \in Failures :
       (last.op = "return" /\ last.outcome = cause) =>
         last.got = "null" /\ last.n = last.retries + 1
  /\ last.op = "caught" =>
       /\ last.outcome \in Failures
       /\ \E t \in Suspended : t.st = "backoff" /\ t.n = last.n
  /\ (last.op = "return" /\ last.outcome = "empty") =>
       /\ last.got = "data"
       /\ last.result.ohlc = <<>>
       /\ tasks = EmptyBag

\* A malformed body has been caught and the call waits to try again.
C6_Witness ==
  /\ last.op = "caught"
  /\ last.outcome = "shape"
  /\ \E t \in Suspended : t.st = "backoff"

\* initCharts has created every chart and rendered or given up on every index.
InitSettled ==
  /\ \A t \in Suspended : t.kind # "init"
  /\ "initCharts" \notin unhandled
  /\ \A k \in 1..Len(indices) : charts[indices[k].id] # NoChart

\* C7: no run of updateDashboard starts before initCharts has settled, and no
\* refresh returns to an index whose chart does not exist yet.
C7_InitBeforeRefresh ==
  /\ last.op = "updateDashboard" => InitSettled
  /\ (last.op = "return" /\ last.kind = "refresh") => charts[last.id] # NoChart

\* C8: no call of initCharts, updateDashboard, handleChartUpdate or
\* handleSearch ends in a rejected promise.
C8_NeverRejects == unhandled = {}

\* The chart under key shows a series with points, in a visible section.
Displayed(key, chs, d) ==
  /\ chs[key] # NoChart
  /\ chs[key].shows # NoData
  /\ chs[key].shows.ohlc # <<>>
  /\ key = "searchResult" => d.resultSection = "block"

\* C9: when a slot displays a series with points and a fetch for it fails (a
\* failure of either class, or a body without points), the chart stays as it
\* was, and displayed.
C9_FailureKeepsRender ==
  [][(/\ last'.op = "return"
      /\ last'.kind # "direct"
      /\ last'.outcome \in Failures \cup {"empty"}
      /\ Displayed(ChartKeyOf(last'.id), charts, dom)) =>
        /\ charts'[ChartKeyOf(last'.id)] = charts[ChartKeyOf(last'.id)]
        /\ Displayed(ChartKeyOf(last'.id), charts', dom')]_vars

\* C10: handleChartUpdate with an id that is neither an index id nor the
\* reserved 'search' does nothing: no fetch, no render, no rejection, and no
\* change to any index, chart, search variable or element.
C10_UnknownSlotNoOp ==
  [][(last'.op = "handleChartUpdate" /\ last'.id \notin IndexIds \cup {"search"}) =>
       /\ last'.out = "nothing"
       /\ UNCHANGED <<indices, charts, currentSearchSymbol, currentChartType,
                      lastFetchedData, dom, tasks, unhandled>>]_vars

\* handleChartUpdate has just run for an unknown id while an index holds data
\* and a fetch is in flight.
C10_Witness ==
  /\ last.op = "handleChartUpdate"
  /\ last.id \in UnknownIds
  /\ \E k \in 1..Len(indices) : indices[k].lastData # NoData
  /\ tasks # EmptyBag

\* C11: handleChartUpdate for an index whose controls wrapper is absent
\* returns without effect: no fetch, no render, no rejection, and the index's
\* range, interval, type and lastData are what they were before the call.
C11_NoWrapperNoEffect ==
  [][(last'.op = "handleChartUpdate" /\ last'.out = "nowrapper") =>
       /\ tasks' = tasks
       /\ unhandled' = unhandled
       /\ charts' = charts
       /\ indices' = indices]_vars

\* A number is present: neither null nor undefined.
Present(x) == x # NullNum /\ x # UndefNum

PointPresent(item) == Present(item.o) /\ Present(item.c)

\* C12: the series fetchStockData returns for a well-formed response is in
\* ascending time order, has no point whose open or close is null or missing,
\* is exactly the positionally paired input points that have both, in input
\* order, and its lastUpdated is the time of the last point (null without one).
C12_SeriesValidAscending ==
  last.op = "normalized" =>
    LET points == last.result.ohlc
    IN /\ \A i, j \in 1..Len(points) : i < j => points[i].time <= points[j].time
       /\ \A j \in 1..Len(points) : PointPresent(points[j])
       /\ points = SelectSeq(PairUp(last.input), PointPresent)
       /\ last.result.lastUpdated =
            IF points = <<>> THEN NullNum ELSE points[Len(points)].time

\* The label format the thresholds give a series of timestamps.
ExpectedFormat(timestamps) ==
  IF timestamps = <<>> THEN "HH:mm"
  ELSE LET span == timestamps[Len(timestamps)] - timestamps[1]
       IN IF span > 31536000 THEN "YYYY/MM"
          ELSE IF span > 172800 THEN "MM/DD"
          ELSE "HH:mm"

\* C13: a line render produces exactly one label per point, all of the format
\* chosen from span = last.time - first.time: YYYY/MM when span > 31,536,000,
\* else MM/DD when span > 172,800, else HH:mm (span exactly 31,536,000 gives
\* MM/DD, span exactly 172,800, a single point or no point HH:mm).
C13_LabelGranularity ==
  (last.op = "render" /\ last.type = "line") =>
    LET timestamps == last.data.timestamps
        labels == charts[ChartKeyOf(last.prefix)].labels
    IN /\ Len(labels) = Len(timestamps)
       /\ \A j \in 1..Len(timestamps) :
            labels[j] = [fmt |-> ExpectedFormat(timestamps), time |-> timestamps[j]]

\* A line render of two points exactly 31,536,000 s apart.
C13_Witness ==
  /\ last.op = "render"
  /\ last.type = "line"
  /\ Len(last.data.timestamps) = 2
  /\ last.data.timestamps[2] - last.data.timestamps[1] = 31536000
  /\ charts[ChartKeyOf(last.prefix)].labels[1].fmt = "MM/DD"

\* What the renderer draws of a chart: its type, x scale, labels and datasets.
View(chart) ==
  [type |-> chart.type, xType |-> chart.xType, labels |-> chart.labels,
   datasets |-> chart.datasets]

\* A chart as new Chart leaves it for an element-id prefix.
FreshChart(prefix) ==
  IF prefix = "search" THEN InitialSearchChart
  ELSE InitialIndexChart(indices[FindIndex(prefix)])

\* C14: a render shows one item per point of the data, in order: in
\* candlestick mode no labels and item j = {x: time_j * 1000, o, h, l, c}; in
\* line mode one label and one close per point, aligned; and whatever modes
\* the chart was rendered in before, the view is the one a new chart gets
\* from the same data and mode.
C14_ViewFromSeriesAndMode ==
  last.op = "render" =>
    LET chart == charts[ChartKeyOf(last.prefix)]
        points == last.data.ohlc
        items == chart.datasets[1].data
    IN /\ chart.type = last.type
       /\ Len(chart.datasets) = 1
       /\ Len(items) = Len(points)
       /\ last.type = "candlestick" =>
            /\ chart.labels = <<>>
            /\ \A j \in 1..Len(points) :
                 items[j] = [x |-> Millis(points[j].time, 0), o |-> points[j].o,
                             h |-> points[j].h, l |-> points[j].l,
                             c |-> points[j].c]
       /\ last.type = "line" =>
            /\ Len(chart.labels) = Len(points)
            /\ \A j \in 1..Len(points) :
                 items[j] = points[j].c /\ chart.labels[j].time = points[j].time
       /\ View(chart) = View(ChartAfter(FreshChart(last.prefix), last.data,
                                        last.prefix, last.type))

\* A line render, with points, of a chart that was a candlestick chart before.
C14_Witness ==
  /\ last.op = "render"
  /\ last.type = "line"
  /\ last.data.ohlc # <<>>
  /\ charts[ChartKeyOf(last.prefix)].xTicksSource = "auto"

\* C15: the search chart is constructed only by a search that returned a
\* series with prices, and once constructed it is never removed and never
\* constructed again, whatever searches, range changes and type toggles
\* overlap.
C15_SearchChartOnce ==
  [][/\ (charts["searchResult"] = NoChart /\ charts'["searchResult"] # NoChart) =>
          /\ last'.op = "return"
          /\ last'.kind = "search"
          /\ ~FetchFailed(last')
          /\ charts'["searchResult"].instance = 1
     /\ charts["searchResult"] # NoChart =>
          /\ charts'["searchResult"] # NoChart
          /\ charts'["searchResult"].instance = charts["searchResult"].instance
     /\ charts'["searchResult"] # NoChart => lastFetchedData' # NoData]_vars

\* handleSearch has rendered the cached series into the chart an earlier
\* search constructed.
C15_Witness ==
  /\ last.op \in {"handleSearch", "handleChartUpdate"}
  /\ last.id = "search"
  /\ last.out = "render"
  /\ charts["searchResult"] # NoChart
  /\ charts["searchResult"].instance = 1

\* What a call leaves behind, in the current state.
Snapshot ==
  SnapshotOf(indices, charts, currentSearchSymbol, currentChartType,
             lastFetchedData, dom, unhandled)

\* C16: handleChartUpdate (any slot, any arguments) or a search called twice
\* in succession with the same arguments, each call settling before the next
\* and the upstream answering alike, leaves the state the first call left:
\* params, types, cached series, charts and page.  (The second call never
\* needs a response the first did not get.)
C16_RepeatIsIdempotent ==
  /\ hist.phase = "done" => Snapshot = hist.snap
  /\ hist.phase = "second" =>
       \A t \in Suspended : t.st = "fetch" => hist.outcomes # <<>>

\* A range change of an index has been made twice, and its series is cached.
C16_Witness ==
  /\ hist.phase = "done"
  /\ hist.call.id \in IndexIds
  /\ Truthy(hist.call.range)
  /\ indices[FindIndex(hist.call.id)].lastData # NoData
  /\ indices[FindIndex(hist.call.id)].lastData.req.range = hist.call.range
  /\ charts[hist.call.id] # NoChart
  /\ charts[hist.call.id].shows = indices[FindIndex(hist.call.id)].lastData

\* C17: responses are applied as they complete: whenever a fetch made for a
\* slot returns a usable series, whatever was requested or received for the
\* slot since, that series becomes the slot's cache and (when the slot has a
\* chart) what its chart shows.
C17_LastCompletionWins ==
  [][(last'.op = "return" /\ last'.kind # "direct" /\ ~FetchFailed(last')) =>
       IF last'.kind = "search"
       THEN /\ lastFetchedData' = WithParams(last'.result, last'.req.symbol,
                                             last'.req.range, last'.req.interval)
            /\ charts'["searchResult"].shows = last'.result
       ELSE /\ indices'[FindIndex(last'.id)].lastData = last'.result
            /\ charts[last'.id] # NoChart => charts'[last'.id].shows = last'.result]_vars

\* The response to a request made with an index's earlier params has arrived
\* after the params were changed, with no other fetch for the index in flight,
\* and is now the index's cache and chart.
C17_Witness ==
  /\ last.op = "return"
  /\ last.kind \in IndexCalls
  /\ last.got = "data"
  /\ last.req.range # indices[FindIndex(last.id)].range
  /\ \A t \in Suspended : t.k # FindIndex(last.id)
  /\ indices[FindIndex(last.id)].lastData.req = last.req
  /\ charts[last.id].shows = last.result

\* The index at position k keeps its params, type, cached series and chart.
IndexSame(k) ==
  /\ indices'[k] = indices[k]
  /\ charts'[indices[k].id] = charts[indices[k].id]

\* The search slot keeps its symbol, type, cached series and chart.
SearchSame ==
  /\ currentSearchSymbol' = currentSearchSymbol
  /\ currentChartType' = currentChartType
  /\ lastFetchedData' = lastFetchedData
  /\ charts'["searchResult"] = charts["searchResult"]

\* initCharts, done with one index, moves on to the index at position k: it
\* constructs that index's chart and requests its data.
InitMovesOn(k) ==
  /\ last'.op = "return"
  /\ last'.kind = "init"
  /\ k = FindIndex(last'.id) + 1
  /\ indices'[k] = indices[k]
  /\ charts[indices[k].id] = NoChart
  /\ charts'[indices[k].id] = InitialIndexChart(indices[k])

\* C18: a step taken for one slot (a range change or type toggle, a search,
\* the return of a fetch made for the slot, the start of a refresh) changes
\* the params, type, cached series and chart of no other slot; the one thing
\* a step does beyond its slot is that initCharts goes on to the next index.
C18_SlotsIndependent ==
  [][last'.op \in {"handleChartUpdate", "handleSearch", "return", "updateDashboard"} =>
       /\ \A k \in 1..Len(indices) :
            indices[k].id # last'.id => (IndexSame(k) \/ InitMovesOn(k))
       /\ last'.id # "search" => SearchSame]_vars

\* A range change of one index has returned and been rendered while another
\* index holds a rendered series.
C18_Witness ==
  /\ last.op = "return"
  /\ last.kind = "update"
  /\ last.got = "data"
  /\ charts[last.id] # NoChart
  /\ \E k \in 1..Len(indices) :
       /\ indices[k].id # last.id
       /\ indices[k].lastData # NoData
       /\ charts[indices[k].id] # NoChart
       /\ charts[indices[k].id].shows = indices[k].lastData

\* The calls of fetchStockData that initCharts and updateDashboard make.
LoopCalls == {"init", "refresh"}

\* A call of fetchStockData that has only just been made.
JustCalled(u) == u.st = "fetch" /\ u.n = 1

\* C19: one run of initCharts or updateDashboard has at most one fetch in
\* flight, and takes the indices in the order of the array: its first fetch
\* is for the first index, and its fetch for the index at k + 1 is issued in
\* the very step in which its fetch for the index at k has returned (after
\* all its attempts) and the index has been rendered.
C19_LoopsAreSequential ==
  [][/\ \A t \in BagToSet(tasks') :
          t.kind \in LoopCalls =>
            /\ CopiesIn(t, tasks') = 1
            /\ \A u \in BagToSet(tasks') :
                 (u.kind = t.kind /\ u.run = t.run) => u = t
     /\ \A u \in BagToSet(tasks') \ Suspended :
          (u.kind \in LoopCalls /\ JustCalled(u)) =>
            IF u.k = 1
            THEN last'.op = "updateDashboard"
            ELSE /\ last'.op = "return"
                 /\ last'.kind = u.kind
                 /\ last'.id = indices[u.k - 1].id
                 /\ ~last'.threw
                 /\ \E t \in Suspended \ BagToSet(tasks') :
                      t.kind = u.kind /\ t.run = u.run /\ t.k = u.k - 1]_vars

\* A run of updateDashboard has gone on to its second index while another
\* run is in flight.
C19_Witness ==
  /\ last.op = "return"
  /\ last.kind = "refresh"
  /\ \E t, u \in Suspended :
       /\ t.kind = "refresh" /\ u.kind = "refresh"
       /\ t.run # u.run
       /\ t.k = 2 /\ JustCalled(t)

\* C20: a range or type button of the search slot, pressed while a search
\* result is cached, acts on that result's symbol: the symbol handleSearch
\* settles on (and goes on to fetch or render) is the cached one, whatever
\* the field and the selector hold and whatever search failed since.
C20_SearchSlotKeepsSymbol ==
  [][(/\ last'.op = "handleChartUpdate"
      /\ last'.id = "search"
      /\ lastFetchedData # NoData) =>
        /\ last'.symbol = lastFetchedData.symbol
        /\ currentSearchSymbol' = lastFetchedData.symbol]_vars

\* C21: handleSearch with an empty field and no stored symbol does nothing,
\* whatever exchange is selected and whatever chart type it is given: no
\* fetch, no error, no change to the page, and currentSearchSymbol,
\* currentChartType and lastFetchedData stay as they were.
C21_EmptySearchNoOp ==
  [][(/\ last'.op \in {"handleSearch", "handleChartUpdate"}
      /\ last'.id = "search"
      /\ dom.stockCode = <<>>
      /\ currentSearchSymbol = <<>>) =>
        /\ tasks' = tasks
        /\ dom' = dom
        /\ currentSearchSymbol' = currentSearchSymbol
        /\ currentChartType' = currentChartType
        /\ lastFetchedData' = lastFetchedData]_vars

\* A call of handleSearch is suspended in its fetch (between attempts included).
SearchInFlight == \E t \in Suspended : t.kind = "search"

\* C22: the search button is disabled exactly while a fetch made by
\* handleSearch is in flight: disabled in every state with such a fetch
\* outstanding, enabled in every state without one.
C22_ButtonDisabledWhileSearching == dom.searchBtnDisabled <=> SearchInFlight
====
